---- MODULE Spec2Model ----
(***************************************************************************)
(* Signal generation (fn_2.py, SingleStockMomentumVolBreakoutStrategy) and *)
(* the backtest ledger (testback.py, BacktestEngine.backtest_strategy).    *)
(*                                                                         *)
(* Money (cash, prices, moving averages, ATR) is counted in hundredths of  *)
(* the currency unit, so 10.00 is 1000 and 1,000,000.00 is 100000000.      *)
(* Floating-point values that the code divides are exact rationals         *)
(* [num, den] with den >= 0: 0/0 is NaN and n/0 (n # 0) is +-infinity, and *)
(* comparisons follow IEEE 754 (every comparison with NaN is false).       *)
(* A frame row carries the indicator inputs that generate_signals reads on *)
(* that row: close (an integer number of hundredths) and the rolling       *)
(* columns fast_ma, slow_ma, atr, atr_pct_median and donchian_low (floats, *)
(* NaN where the window is not full).  Dates are the row's integer         *)
(* position in the caller's frame.                                         *)
(*                                                                         *)
(* Spec and SpecSig hand the engine frames of indicator rows; SpecBars and *)
(* SpecScen hand it raw bars [high, low, close], from which the indicator  *)
(* columns are computed (calculate_indicators); SpecCfg constructs the     *)
(* strategy with arguments other than the defaults.                        *)
(*                                                                         *)
(* strategy is the configuration the strategy object holds, bars the raw   *)
(* frame of the current run (empty when the run was given indicator rows), *)
(* performance the dict the last finished run returned.                    *)
(***************************************************************************)
EXTENDS Integers, Sequences, FiniteSets, TLC

VARIABLES pc, df, base, signals_df, signals, k,
          cash, positions, trades, portfolio_value, runs, prev,
          strategy, bars, performance

vars == <<pc, df, base, signals_df, signals, k,
          cash, positions, trades, portfolio_value, runs, prev,
          strategy, bars, performance>>

(* ------------------------------ bounds -------------------------------- *)

\* longest frame window handed to backtest_strategy
MaxDays == 4
\* how many times backtest_strategy is run on the same engine
MaxRuns == 2

(* ------------------------- rational arithmetic ------------------------ *)

Abs(x) == IF x < 0 THEN -x ELSE x

Max(a, b) == IF a > b THEN a ELSE b

RECURSIVE GCD(_, _)
GCD(a, b) == IF b = 0 THEN a ELSE GCD(b, a % b)

\* the float n/d in lowest terms with the sign on the numerator (NaN is 0/0,
\* infinities are +-1/0)
Rat(n, d) ==
    IF d = 0 THEN [num |-> IF n > 0 THEN 1 ELSE IF n < 0 THEN -1 ELSE 0, den |-> 0]
    ELSE LET g == GCD(Abs(n), Abs(d))
         IN IF d < 0 THEN [num |-> (-n) \div g, den |-> (-d) \div g]
            ELSE [num |-> n \div g, den |-> d \div g]

IsNaN(a) == a.num = 0 /\ a.den = 0

RLt(a, b) ==
    /\ ~IsNaN(a)
    /\ ~IsNaN(b)
    /\ IF a.den = 0 /\ b.den = 0 THEN a.num < b.num
       ELSE a.num * b.den < b.num * a.den

RLe(a, b) ==
    /\ ~IsNaN(a)
    /\ ~IsNaN(b)
    /\ IF a.den = 0 /\ b.den = 0 THEN a.num <= b.num
       ELSE a.num * b.den <= b.num * a.den

RGt(a, b) == RLt(b, a)

RNeg(a) == [num |-> -a.num, den |-> a.den]

RAdd(a, b) == Rat(a.num * b.den + b.num * a.den, a.den * b.den)

RSub(a, b) == Rat(a.num * b.den - b.num * a.den, a.den * b.den)

RMul(a, b) == Rat(a.num * b.num, a.den * b.den)

\* a / b; x / 0 is +-inf by the sign of x and 0 / 0 is NaN
RDiv(a, b) == Rat(a.num * b.den, a.den * b.num)

\* a min that always returns its second argument (no clamp)
RMinSecond(a, b) == b

\* Python's max(a, b): b only when b > a, so a NaN second argument is dropped
RMax(a, b) == IF RLt(a, b) THEN b ELSE a

RAbs(a) == [num |-> Abs(a.num), den |-> a.den]

\* Python's min(a, b): b only when b < a, so a NaN second argument is dropped
RMin(a, b) == IF RLt(b, a) THEN b ELSE a

(* --------------------- strategy configuration (fn_2) ------------------ *)

\* the keyword defaults of __init__
DefaultConfig ==
    [fast_ma_window |-> 20, slow_ma_window |-> 60, entry_breakout_window |-> 10,
     atr_window |-> 14, atr_multiple_stop |-> 3,
     vol_min_pct |-> Rat(7, 10), vol_max_pct |-> Rat(2, 1),
     vol_lookback_for_filter |-> 60, max_pyramid_layers |-> 3,
     vol_expand_multiple_for_add |-> Rat(11, 10), exit_break_window |-> 10,
     min_hold_days |-> 5, cooldown_days_after_exit |-> 5,
     risk_fraction_per_trade |-> Rat(1, 100)]

\* __init__: every argument is stored as given; three attributes are fixed
strategy_init(cfg) ==
    [fast_ma_window |-> cfg.fast_ma_window,
     slow_ma_window |-> cfg.slow_ma_window,
     entry_breakout_window |-> cfg.entry_breakout_window,
     atr_window |-> cfg.atr_window,
     atr_multiple_stop |-> cfg.atr_multiple_stop,
     vol_min_pct |-> cfg.vol_min_pct,
     vol_max_pct |-> cfg.vol_max_pct,
     vol_lookback_for_filter |-> cfg.vol_lookback_for_filter,
     max_pyramid_layers |-> cfg.max_pyramid_layers,
     vol_expand_multiple_for_add |-> cfg.vol_expand_multiple_for_add,
     exit_break_window |-> cfg.exit_break_window,
     min_hold_days |-> cfg.min_hold_days,
     cooldown_days_after_exit |-> cfg.cooldown_days_after_exit,
     risk_fraction_per_trade |-> cfg.risk_fraction_per_trade,
     take_profit_multiple |-> 2,
     max_position_risk |-> Rat(5, 100),
     trend_strength_threshold |-> Rat(2, 100)]

\* the attributes of self.strategy that the signal loop and the ledger read
slow_ma_window == strategy.slow_ma_window
vol_lookback_for_filter == strategy.vol_lookback_for_filter
atr_multiple_stop == strategy.atr_multiple_stop
take_profit_multiple == strategy.take_profit_multiple
vol_min_pct == strategy.vol_min_pct
vol_max_pct == strategy.vol_max_pct
vol_expand_multiple_for_add == strategy.vol_expand_multiple_for_add
trend_strength_threshold == strategy.trend_strength_threshold
risk_reward_min == Rat(3, 2)

\* position rules the constructor stores: layers, minimum hold, cooldown
max_pyramid_layers == strategy.max_pyramid_layers
min_hold_days == strategy.min_hold_days
cooldown_days_after_exit == strategy.cooldown_days_after_exit

MinLookback == Max(slow_ma_window, vol_lookback_for_filter)

(* ------------------------- indicator columns -------------------------- *)

\* calculate_volume_indicators: atr_pct and atr_filter_ratio
atr_pct(row) == RDiv(row.atr, Rat(row.close, 1))

atr_filter_ratio(row) == RDiv(atr_pct(row), row.atr_pct_median)

\* calculate_momentum_indicators: trend_strength
trend_strength(row) == RDiv(RSub(row.fast_ma, row.slow_ma), row.slow_ma)

\* calculate_risk_indicators
dynamic_stop_loss(row) ==
    RSub(Rat(row.close, 1), RMul(Rat(atr_multiple_stop, 1), row.atr))

\* a take-profit placed take_profit_multiple ATRs above the close
take_profit_price_flat(row) ==
    RAdd(Rat(row.close, 1), RMul(Rat(take_profit_multiple, 1), row.atr))

take_profit_price(row) ==
    RAdd(Rat(row.close, 1),
         RMul(Rat(take_profit_multiple * atr_multiple_stop, 1), row.atr))

risk_reward_ratio(row) ==
    RDiv(RSub(take_profit_price(row), Rat(row.close, 1)),
         RSub(Rat(row.close, 1), dynamic_stop_loss(row)))

(* ---------------- indicator columns from the raw bars ----------------- *)

\* A bar is [high, low, close] in hundredths; t counts rows from 1.

NaN == Rat(0, 0)

\* the sum of a column, first half plus second half
RECURSIVE SumSeq(_)
SumSeq(xs) ==
    IF Len(xs) = 0 THEN 0
    ELSE IF Len(xs) = 1 THEN xs[1]
    ELSE LET h == Len(xs) \div 2
         IN SumSeq(SubSeq(xs, 1, h)) + SumSeq(SubSeq(xs, h + 1, Len(xs)))

\* a window that ends one row after t whenever there is such a row
rolling_window_ahead(xs, w, t) ==
    IF t < Len(xs) THEN SubSeq(xs, t - w + 2, t + 1) ELSE SubSeq(xs, t - w + 1, t)

\* the rows a rolling(w) window ending at row t covers
rolling_window(xs, w, t) == SubSeq(xs, t - w + 1, t)

\* rolling(w).mean() of a column of whole numbers: NaN until w rows are there
rolling_mean(xs, w, t) ==
    IF t < w \/ w < 1 THEN NaN ELSE Rat(SumSeq(rolling_window(xs, w, t)), w)

\* rolling(w).max()
rolling_max(xs, w, t) ==
    IF t < w \/ w < 1 THEN NaN
    ELSE LET win == rolling_window(xs, w, t)
         IN Rat(CHOOSE x \in {win[i] : i \in 1..w} :
                    \A i \in 1..w : win[i] <= x, 1)

\* a minimum over the w rows before row t, row t left out
rolling_min_prior(xs, w, t) ==
    IF t <= w \/ w < 1 THEN NaN
    ELSE LET win == SubSeq(xs, t - w, t - 1)
         IN Rat(CHOOSE x \in {win[i] : i \in 1..w} :
                    \A i \in 1..w : x <= win[i], 1)

\* rolling(w).min()
rolling_min(xs, w, t) ==
    IF t < w \/ w < 1 THEN NaN
    ELSE LET win == rolling_window(xs, w, t)
         IN Rat(CHOOSE x \in {win[i] : i \in 1..w} :
                    \A i \in 1..w : x <= win[i], 1)

\* the n-th smallest entry of a sequence of floats without NaN
kth_smallest(vals, n) ==
    LET i == CHOOSE c \in 1..Len(vals) :
                 /\ Cardinality({j \in 1..Len(vals) : RLt(vals[j], vals[c])}) < n
                 /\ Cardinality({j \in 1..Len(vals) : RLe(vals[j], vals[c])}) >= n
    IN vals[i]

\* rolling(w).median() of a column of floats: the middle entry, or the mean of
\* the two middle entries of an even window
rolling_median(vals, w, t) ==
    IF t < w \/ w < 1 THEN NaN
    ELSE LET win == rolling_window(vals, w, t)
         IN IF \E i \in 1..w : IsNaN(win[i]) THEN NaN
            ELSE IF w % 2 = 1 THEN kth_smallest(win, (w + 1) \div 2)
            ELSE RDiv(RAdd(kth_smallest(win, w \div 2), kth_smallest(win, w \div 2 + 1)),
                      Rat(2, 1))

\* _compute_atr: the row-wise max of high - low, |high - prev_close| and
\* |low - prev_close|; the first row has no prev_close and max skips the NaN
true_range(b, t) ==
    IF t = 1 THEN b[t].high - b[t].low
    ELSE Max(Max(b[t].high - b[t].low, Abs(b[t].high - b[t - 1].close)),
             Abs(b[t].low - b[t - 1].close))

\* ewm(span, adjust=False).mean(): y[1] = x[1] and, with alpha = 2 / (span + 1),
\* y[t] = (1 - alpha) * y[t-1] + alpha * x[t].  ewm_from continues the average y
\* over the rows xs, first half before second half.
RECURSIVE ewm_from(_, _, _)
ewm_from(xs, span, y) ==
    IF Len(xs) = 1
    THEN <<RAdd(RMul(Rat(span - 1, span + 1), y), Rat(2 * xs[1], span + 1))>>
    ELSE LET h == Len(xs) \div 2
             left == ewm_from(SubSeq(xs, 1, h), span, y)
         IN left \o ewm_from(SubSeq(xs, h + 1, Len(xs)), span, left[h])

ewm_mean(xs, span) ==
    IF xs = <<>> THEN <<>>
    ELSE IF Len(xs) = 1 THEN <<Rat(xs[1], 1)>>
    ELSE <<Rat(xs[1], 1)>> \o ewm_from(Tail(xs), span, Rat(xs[1], 1))

compute_atr(b, window) == ewm_mean([t \in 1..Len(b) |-> true_range(b, t)], window)

\* calculate_volume_indicators and calculate_technical_indicators: the
\* columns the signal loop reads on each row, and donchian_high
calculate_indicators(b) ==
    LET close == [t \in 1..Len(b) |-> b[t].close]
        high == [t \in 1..Len(b) |-> b[t].high]
        low == [t \in 1..Len(b) |-> b[t].low]
        atr == compute_atr(b, strategy.atr_window)
        pct == [t \in 1..Len(b) |-> RDiv(atr[t], Rat(close[t], 1))]
    IN [t \in 1..Len(b) |->
          [close |-> close[t],
           atr |-> atr[t],
           atr_pct_median |-> rolling_median(pct, strategy.vol_lookback_for_filter, t),
           fast_ma |-> rolling_mean(close, strategy.fast_ma_window, t),
           slow_ma |-> rolling_mean(close, strategy.slow_ma_window, t),
           donchian_high |-> rolling_max(high, strategy.entry_breakout_window, t),
           donchian_low |-> rolling_min(low, strategy.exit_break_window, t)]]

(* ------------------------ _calculate_position_size -------------------- *)

\* calculate_volume_indicators: 'low' below the band, 'high' above it
volatility_regime(row) ==
    IF RGt(atr_filter_ratio(row), vol_max_pct) THEN "high"
    ELSE IF RLt(atr_filter_ratio(row), vol_min_pct) THEN "low"
    ELSE "normal"

trend_adjustment(row) ==
    RMin(Rat(3, 2), RMax(Rat(1, 2), RMul(RAbs(trend_strength(row)), Rat(10, 1))))

vol_adjustment(row) ==
    IF volatility_regime(row) = "low" THEN Rat(8, 10)
    ELSE IF volatility_regime(row) = "high" THEN Rat(12, 10)
    ELSE Rat(1, 1)

rr_adjustment(row) ==
    RMin(Rat(3, 2), RMax(Rat(1, 2), RDiv(risk_reward_ratio(row), Rat(2, 1))))

\* min(base_size * trend * vol * rr, max_position_risk)
calculate_position_size(row) ==
    RMin(RMul(RMul(RMul(strategy.risk_fraction_per_trade, trend_adjustment(row)),
                   vol_adjustment(row)),
              rr_adjustment(row)),
         strategy.max_position_risk)

(* ------------------- generate_signals: row conditions ----------------- *)

ma_condition(row) == RGt(row.fast_ma, row.slow_ma)

trend_condition(row) == RGt(Rat(row.close, 1), row.fast_ma)

\* a volatility band that leaves its two end points out
vol_condition_strict(row) ==
    /\ RLt(vol_min_pct, atr_filter_ratio(row))
    /\ RLt(atr_filter_ratio(row), vol_max_pct)

vol_condition(row) ==
    /\ RLe(vol_min_pct, atr_filter_ratio(row))
    /\ RLe(atr_filter_ratio(row), vol_max_pct)

risk_reward_ok(row) == RGt(risk_reward_ratio(row), risk_reward_min)

below_stop(row) == RLt(Rat(row.close, 1), dynamic_stop_loss(row))

break_low(row) == RLt(Rat(row.close, 1), row.donchian_low)

above_take_profit(row) == RGt(Rat(row.close, 1), take_profit_price(row))

trend_reversal(row) == RLt(trend_strength(row), RNeg(trend_strength_threshold))

buy_condition(row) ==
    ma_condition(row) /\ trend_condition(row) /\ vol_condition(row) /\ risk_reward_ok(row)

sell_condition(row) ==
    below_stop(row) \/ break_low(row) \/ above_take_profit(row) \/ trend_reversal(row)

\* an ADD test that also accepts a value equal to its threshold
add_condition_inclusive(row) ==
    /\ RLe(RMul(trend_strength_threshold, Rat(3, 2)), trend_strength(row))
    /\ RLe(vol_expand_multiple_for_add, atr_filter_ratio(row))

add_condition(row) ==
    /\ RGt(trend_strength(row), RMul(trend_strength_threshold, Rat(3, 2)))
    /\ RGt(atr_filter_ratio(row), vol_expand_multiple_for_add)

\* reason tags tested from the last sub-condition to the first
sell_reason_reversed(row) ==
    IF trend_reversal(row) THEN "trend_reversal"
    ELSE IF above_take_profit(row) THEN "take_profit"
    ELSE IF break_low(row) THEN "channel_break"
    ELSE "stop_loss"

sell_reason(row) ==
    IF below_stop(row) THEN "stop_loss"
    ELSE IF break_low(row) THEN "channel_break"
    ELSE IF above_take_profit(row) THEN "take_profit"
    ELSE "trend_reversal"

\* the columns generate_signals initialises on every row (HOLD defaults)
hold_row(row, i) ==
    [date |-> i, close |-> row.close, signal |-> "HOLD", signal_reason |-> "",
     signal_strength |-> Rat(0, 1), position_size |-> Rat(0, 1),
     stop_loss |-> Rat(0, 1), take_profit |-> Rat(0, 1)]

\* the if / elif / elif chain of the loop body, SELL tested before BUY
evaluate_row_sell_first(row, i) ==
    IF sell_condition(row)
    THEN [hold_row(row, i) EXCEPT !.signal = "SELL",
                                  !.signal_reason = sell_reason(row),
                                  !.signal_strength = Rat(1, 1)]
    ELSE IF buy_condition(row)
    THEN [hold_row(row, i) EXCEPT !.signal = "BUY",
                                  !.signal_reason = "buy",
                                  !.signal_strength =
                                      RMin(Rat(1, 1), RMul(trend_strength(row), Rat(10, 1))),
                                  !.stop_loss = dynamic_stop_loss(row),
                                  !.take_profit = take_profit_price(row),
                                  !.position_size = calculate_position_size(row)]
    ELSE IF add_condition(row)
    THEN [hold_row(row, i) EXCEPT !.signal = "ADD",
                                  !.signal_reason = "add",
                                  !.signal_strength = Rat(8, 10),
                                  !.position_size =
                                      RMul(calculate_position_size(row), Rat(1, 2))]
    ELSE hold_row(row, i)

\* the if / elif / elif chain of the loop body for a row past the lookback
evaluate_row(row, i) ==
    IF buy_condition(row)
    THEN [hold_row(row, i) EXCEPT !.signal = "BUY",
                                  !.signal_reason = "buy",
                                  !.signal_strength =
                                      RMin(Rat(1, 1), RMul(trend_strength(row), Rat(10, 1))),
                                  !.stop_loss = dynamic_stop_loss(row),
                                  !.take_profit = take_profit_price(row),
                                  !.position_size = calculate_position_size(row)]
    ELSE IF sell_condition(row)
    THEN [hold_row(row, i) EXCEPT !.signal = "SELL",
                                  !.signal_reason = sell_reason(row),
                                  !.signal_strength = Rat(1, 1)]
    ELSE IF add_condition(row)
    THEN [hold_row(row, i) EXCEPT !.signal = "ADD",
                                  !.signal_reason = "add",
                                  !.signal_strength = Rat(8, 10),
                                  !.position_size =
                                      RMul(calculate_position_size(row), Rat(1, 2))]
    ELSE hold_row(row, i)

\* a loop that already evaluates the last row inside the lookback
signal_row_early(row, i) ==
    IF i < MinLookback - 1 THEN hold_row(row, i) ELSE evaluate_row(row, i)

\* a loop that also skips the row at index MinLookback
signal_row_late(row, i) ==
    IF i <= MinLookback THEN hold_row(row, i) ELSE evaluate_row(row, i)

\* one iteration of "for i in range(len(df))"
signal_row(row, i) ==
    IF i < MinLookback THEN hold_row(row, i) ELSE evaluate_row(row, i)

\* generate_signals on the frame window d whose first row has index b
generate_signals(d, b) == [j \in 1..Len(d) |-> signal_row(d[j], b + j - 1)]

(* ------------------------- BacktestEngine ----------------------------- *)

initial_cash == 100000000

\* signals.append({...}) for every row whose signal is not HOLD
\* a signal entry that carries the strength the strategy gave the row
signal_entry_row_strength(r) ==
    [date |-> r.date, action |-> r.signal, price |-> r.close,
     reason |-> r.signal_reason,
     strength |-> RAdd(r.signal_strength, r.signal_strength)]

signal_entry(r) ==
    [date |-> r.date, action |-> r.signal, price |-> r.close,
     reason |-> r.signal_reason, strength |-> Rat(1, 1)]

collect_signals(sdf) ==
    LET rows == SelectSeq(sdf, LAMBDA r : r.signal # "HOLD")
    IN [j \in 1..Len(rows) |-> signal_entry(rows[j])]

\* sizing that leaves out the 10% factor
position_size_all_cash(c, strength) ==
    RMin(RMul(Rat(c, 1), strength), Rat(c, 1))

\* min(self.cash * 0.1 * strength, self.cash), as a rational
position_size(c, strength) ==
    RMin(RMul(Rat(c, 10), strength), Rat(c, 1))

\* int(position_size / price) with all of the cash, rounded up
buy_shares_all_in(c, strength, price) == (c \div price) + 1

\* int(position_size / price)
buy_shares(c, strength, price) ==
    LET v == position_size(c, strength) IN v.num \div (v.den * price)

\* self.positions[date] = lot: a dict keeps the slot of a key it already holds
dict_set(pos, lot) ==
    IF \E j \in 1..Len(pos) : pos[j].date = lot.date
    THEN [j \in 1..Len(pos) |-> IF pos[j].date = lot.date THEN lot ELSE pos[j]]
    ELSE Append(pos, lot)

\* a BUY branch that opens the lot and pays for it without logging a trade
buy_branch_unlogged(L, s) ==
    LET shares == buy_shares(L.cash, s.strength, s.price)
        c == L.cash - shares * s.price
    IN IF shares > 0
       THEN [cash |-> c,
             positions |-> dict_set(L.positions,
                                    [date |-> s.date, shares |-> shares, price |-> s.price]),
             trades |-> L.trades]
       ELSE L

\* the BUY branch; L = [cash, positions, trades]
buy_branch(L, s) ==
    LET shares == buy_shares(L.cash, s.strength, s.price)
        c == L.cash - shares * s.price
    IN IF shares > 0
       THEN [cash |-> c,
             positions |-> dict_set(L.positions,
                                    [date |-> s.date, shares |-> shares, price |-> s.price]),
             trades |-> Append(L.trades,
                               [date |-> s.date, action |-> "BUY", price |-> s.price,
                                shares |-> shares, reason |-> s.reason, cash_after |-> c])]
       ELSE L

\* the SELL branch: for pos_date, position in list(self.positions.items())
RECURSIVE sell_loop(_, _, _)
sell_loop(items, L, s) ==
    IF items = <<>> THEN L
    ELSE LET lot == Head(items) IN
         IF lot.date <= s.date
         THEN LET c == L.cash + lot.shares * s.price IN
              sell_loop(Tail(items),
                        [cash |-> c,
                         positions |-> SelectSeq(L.positions, LAMBDA x : x.date # lot.date),
                         trades |-> Append(L.trades,
                                           [date |-> s.date, action |-> "SELL",
                                            price |-> s.price, shares |-> lot.shares,
                                            profit |-> (s.price - lot.price) * lot.shares,
                                            reason |-> s.reason, cash_after |-> c])],
                        s)
         ELSE sell_loop(Tail(items), L, s)

\* a SELL that closes only the oldest lot
sell_branch_oldest(L, s) == sell_loop(<<Head(L.positions)>>, L, s)

\* a SELL branch that keeps 0.01 of the proceeds back as a fee
sell_branch_fee(L, s) ==
    LET A == sell_loop(L.positions, L, s) IN [A EXCEPT !.cash = A.cash - 1]

sell_branch(L, s) == sell_loop(L.positions, L, s)

\* a ledger that goes short when told to SELL while flat
apply_signal_short(L, s) ==
    IF s.action = "BUY" /\ L.cash > 0 THEN buy_branch(L, s)
    ELSE IF s.action = "SELL"
    THEN IF L.positions # <<>> THEN sell_branch(L, s)
         ELSE LET shares == buy_shares(L.cash, s.strength, s.price)
                  c == L.cash + shares * s.price
              IN [cash |-> c,
                  positions |-> dict_set(L.positions,
                                         [date |-> s.date, shares |-> -shares, price |-> s.price]),
                  trades |-> Append(L.trades,
                                    [date |-> s.date, action |-> "SELL", price |-> s.price,
                                     shares |-> shares, profit |-> 0,
                                     reason |-> s.reason, cash_after |-> c])]
    ELSE L

\* the if / elif of the loop body
apply_signal(L, s) ==
    IF s.action = "BUY" /\ L.cash > 0 THEN buy_branch(L, s)
    ELSE IF s.action = "SELL" /\ L.positions # <<>> THEN sell_branch(L, s)
    ELSE L

\* mark-to-market that leaves out the lot opened on the signal's own day
current_value_strict(c, pos, s) ==
    c + SumSeq([j \in 1..Len(pos) |->
                  IF pos[j].date < s.date THEN pos[j].shares * s.price ELSE 0])

\* current_value = self.cash + sum of shares * price over lots with pos_date <= date
current_value(c, pos, s) ==
    c + SumSeq([j \in 1..Len(pos) |->
                  IF pos[j].date <= s.date THEN pos[j].shares * s.price ELSE 0])

snapshot(L, s) ==
    [date |-> s.date, value |-> current_value(L.cash, L.positions, s),
     cash |-> L.cash, positions |-> Len(L.positions)]

\* one iteration that records a snapshot only when the ledger has changed
process_signal_trades_only(L, pv, s) ==
    LET A == apply_signal(L, s)
    IN [ledger |-> A,
        portfolio_value |-> IF A = L THEN pv ELSE Append(pv, snapshot(A, s))]

\* one loop iteration that records the snapshot before executing the signal
process_signal_snapshot_first(L, pv, s) ==
    [ledger |-> apply_signal(L, s), portfolio_value |-> Append(pv, snapshot(L, s))]

\* one iteration of "for signal in signals"
process_signal(L, pv, s) ==
    LET A == apply_signal(L, s)
    IN [ledger |-> A, portfolio_value |-> Append(pv, snapshot(A, s))]

\* a reset that forgets to restore the cash
reset_state_keep_cash(c) ==
    [cash |-> c, positions |-> <<>>, trades |-> <<>>, portfolio_value |-> <<>>]

\* the reset at the head of backtest_strategy
reset_state(c) ==
    [cash |-> initial_cash, positions |-> <<>>, trades |-> <<>>, portfolio_value |-> <<>>]

(* ------------------------ calculate_performance ----------------------- *)

\* a * m for a whole number m > 0, cancelling before it multiplies
RTimes(a, m) ==
    LET g == GCD(m, a.den) IN Rat(a.num * (m \div g), a.den \div g)

\* a < b for finite a, b >= 0, by continued fractions: the same order as RLt
\* without forming the cross products
RECURSIVE RLtWide(_, _)
RLtWide(a, b) ==
    LET qa == a.num \div a.den
        qb == b.num \div b.den
        ra == a.num % a.den
        rb == b.num % b.den
    IN IF qa # qb THEN qa < qb
       ELSE IF rb = 0 THEN FALSE
       ELSE IF ra = 0 THEN TRUE
       ELSE RLtWide([num |-> b.den, den |-> rb], [num |-> a.den, den |-> ra])

\* (final_value - initial_value) / initial_value * 100
total_return(pv) == RTimes(Rat(pv[Len(pv)].value - initial_cash, initial_cash), 100)

\* a loop body that keeps the latest drawdown instead of the largest
drawdown_step_latest(st, v) ==
    LET p == IF v > st.peak THEN v ELSE st.peak
    IN [peak |-> p, max_drawdown |-> RTimes(Rat(p - v, p), 100)]

\* the body of "for pv in self.portfolio_value" on the loop variables
\* st = [peak, max_drawdown]: raise the peak, keep the largest drawdown
drawdown_step(st, v) ==
    LET p == IF v > st.peak THEN v ELSE st.peak
        drawdown == RTimes(Rat(p - v, p), 100)
    IN [peak |-> p,
        max_drawdown |-> IF RLtWide(st.max_drawdown, drawdown) THEN drawdown
                         ELSE st.max_drawdown]

\* the loop variables after each snapshot of pv, starting from st; the first
\* half of pv runs before the second
RECURSIVE drawdown_loop(_, _)
drawdown_loop(pv, st) ==
    IF Len(pv) = 1 THEN <<drawdown_step(st, pv[1].value)>>
    ELSE LET h == Len(pv) \div 2
             left == drawdown_loop(SubSeq(pv, 1, h), st)
         IN left \o drawdown_loop(SubSeq(pv, h + 1, Len(pv)), left[h])

\* a win rate over all trades, BUY trades included
win_rate_all_trades(tr) ==
    LET profitable_trades ==
            SelectSeq(tr, LAMBDA t : t.action = "SELL" /\ t.profit > 0)
    IN IF tr # <<>> THEN RTimes(Rat(Len(profitable_trades), Len(tr)), 100)
       ELSE Rat(0, 1)

\* len(profitable_trades) / len(sell_trades) * 100 if sell_trades else 0
win_rate(tr) ==
    LET sell_trades == SelectSeq(tr, LAMBDA t : t.action = "SELL")
        profitable_trades == SelectSeq(sell_trades, LAMBDA t : t.profit > 0)
    IN IF sell_trades # <<>>
       THEN RTimes(Rat(Len(profitable_trades), Len(sell_trades)), 100)
       ELSE Rat(0, 1)

\* the dict calculate_performance returns ({} without snapshots); annual_return
\* and sharpe_ratio (a power and a square root) are left out
calculate_performance(pv, tr) ==
    IF pv = <<>> THEN <<>>
    ELSE [total_return |-> total_return(pv),
          max_drawdown |->
              drawdown_loop(pv, [peak |-> initial_cash,
                                 max_drawdown |-> Rat(0, 1)])[Len(pv)].max_drawdown,
          win_rate |-> win_rate(tr),
          total_trades |-> Len(tr),
          buy_trades |-> Len(SelectSeq(tr, LAMBDA t : t.action = "BUY")),
          sell_trades |-> Len(SelectSeq(tr, LAMBDA t : t.action = "SELL")),
          final_value |-> pv[Len(pv)].value,
          initial_value |-> initial_cash]

(* ----------------------------- frames --------------------------------- *)

Row(c, f, s, a, m, d) ==
    [close |-> c, fast_ma |-> Rat(f, 1), slow_ma |-> Rat(s, 1), atr |-> Rat(a, 1),
     atr_pct_median |-> Rat(m, 1000), donchian_low |-> Rat(d, 1)]

\* rows that drive the ledger: each action of the strategy at several prices
LedgerRows ==
    { Row(1000,  990,  900, 30, 30, 900),    \* BUY  at 10.00, strength 1.0
      Row(1200, 1050, 1000, 30, 20, 900),    \* BUY  at 12.00, strength 0.5
      Row(1500,  900, 1000, 30, 30, 900),    \* SELL at 15.00
      Row(1000,  900, 1000, 30, 30, 900),    \* SELL at 10.00
      Row(1200, 1200, 1000, 30, 20, 900),    \* ADD  at 12.00
      Row(1000, 1000, 1000,  0,  0, 900) }   \* HOLD at 10.00

Closes == {1000, 1200, 1500}
MovingAverages == {900, 990, 1000, 1030, 1050, 1200}
Atrs == {0, 30}
AtrPctMedians == {0, 10, 20, 30}
DonchianLows == {900, 1600}

AllRows ==
    { Row(c, f, s, a, m, d) : c \in Closes, f \in MovingAverages, s \in MovingAverages,
                              a \in Atrs, m \in AtrPctMedians, d \in DonchianLows }

RECURSIVE SeqsUpTo(_, _)
SeqsUpTo(S, n) ==
    IF n = 0 THEN {<<>>}
    ELSE LET P == SeqsUpTo(S, n - 1)
         IN P \cup { Append(q, x) : q \in {p \in P : Len(p) = n - 1}, x \in S }

\* rows of a share that costs more than a tenth of the initial cash
HighPriceRows ==
    { Row(20000000, 19800000, 18000000, 600000, 30, 18000000),    \* BUY  at 200,000.00
      Row(20000000, 18000000, 20000000, 600000, 30, 18000000) }   \* SELL at 200,000.00

LedgerFrames == SeqsUpTo(LedgerRows, MaxDays) \cup SeqsUpTo(HighPriceRows, MaxDays)

SignalFrames == { <<r>> : r \in AllRows }

\* index of the first row of the window: the last row inside the lookback, or the first past it
Bases == {MinLookback - 1, MinLookback}

(* ----------------------------- actions -------------------------------- *)

Init ==
    /\ pc = "idle"
    /\ df = <<>>
    /\ base = 0
    /\ signals_df = <<>>
    /\ signals = <<>>
    /\ k = 1
    /\ cash = initial_cash
    /\ positions = <<>>
    /\ trades = <<>>
    /\ portfolio_value = <<>>
    /\ runs = 0
    /\ prev = <<>>
    /\ strategy = strategy_init(DefaultConfig)
    /\ bars = <<>>
    /\ performance = <<>>

\* backtest_strategy(df) up to the trading loop: reset, generate_signals, signal list
Begin(d, b) ==
    LET R == reset_state(cash)
        sdf == generate_signals(d, b)
    IN /\ df' = d
       /\ base' = b
       /\ cash' = R.cash
       /\ positions' = R.positions
       /\ trades' = R.trades
       /\ portfolio_value' = R.portfolio_value
       /\ signals_df' = sdf
       /\ signals' = collect_signals(sdf)
       /\ k' = 1
       /\ pc' = "loop"

\* the first call on a freshly constructed engine
BacktestStart(F) ==
    /\ pc = "idle"
    /\ \E d \in F, b \in Bases : Begin(d, b)
    /\ UNCHANGED <<runs, prev, strategy, bars, performance>>

\* one iteration of the trading loop
ProcessSignal ==
    /\ pc = "loop"
    /\ k <= Len(signals)
    /\ LET N == process_signal([cash |-> cash, positions |-> positions, trades |-> trades],
                               portfolio_value, signals[k])
       IN /\ cash' = N.ledger.cash
          /\ positions' = N.ledger.positions
          /\ trades' = N.ledger.trades
          /\ portfolio_value' = N.portfolio_value
    /\ k' = k + 1
    /\ UNCHANGED <<pc, df, base, signals_df, signals, runs, prev,
                   strategy, bars, performance>>

\* the loop is over: backtest_strategy returns
Finish ==
    /\ pc = "loop"
    /\ k > Len(signals)
    /\ pc' = "done"
    /\ runs' = runs + 1
    /\ performance' = calculate_performance(portfolio_value, trades)
    /\ UNCHANGED <<df, base, signals_df, signals, k, cash, positions, trades,
                   portfolio_value, prev, strategy, bars>>

\* backtest_strategy is called again on the same engine with the same frame
Rerun ==
    /\ pc = "done"
    /\ runs < MaxRuns
    /\ prev' = <<[df |-> df, signals_df |-> signals_df, trades |-> trades,
                  portfolio_value |-> portfolio_value]>>
    /\ Begin(df, base)
    /\ UNCHANGED <<runs, strategy, bars, performance>>

Next == BacktestStart(LedgerFrames) \/ ProcessSignal \/ Finish \/ Rerun

Spec == Init /\ [][Next]_vars

NextSig == BacktestStart(SignalFrames) \/ ProcessSignal \/ Finish \/ Rerun

SpecSig == Init /\ [][NextSig]_vars

(* ----------------------- frames of raw bars --------------------------- *)

Bar(h, l, c) == [high |-> h, low |-> l, close |-> c]

\* longest frame of raw bars under the short windows
MaxBars == 4

\* short windows, so that every rolling column is defined within MaxBars rows
SmallConfig ==
    [DefaultConfig EXCEPT !.fast_ma_window = 2, !.slow_ma_window = 3,
                          !.entry_breakout_window = 2, !.exit_break_window = 2,
                          !.atr_window = 3, !.vol_lookback_for_filter = 2]

SmallBars ==
    { Bar(1000, 1000, 1000), Bar(1100, 900, 1000),
      Bar(1200, 1000, 1100), Bar(1200, 1200, 1200) }

\* a bar as a feed may deliver it, nothing checks it: high below low
InvertedBar == Bar(900, 1000, 1000)

\* every frame of small bars, and every such frame behind an inverted first bar
SmallBarFrames ==
    SeqsUpTo(SmallBars, MaxBars)
        \cup { <<InvertedBar>> \o q : q \in SeqsUpTo(SmallBars, MaxBars - 1) }

\* n bars rising by s a day from c0, each with high = close + s, low = close - s
RisingSeries(n, c0, s) ==
    [t \in 1..n |-> Bar(c0 + s * t, c0 + s * (t - 2), c0 + s * (t - 1))]

\* n bars with open = high = low = close = c
FlatSeries(n, c) == [t \in 1..n |-> Bar(c, c, c)]

\* n flat bars at c, then one flat bar at j
JumpSeries(n, c, j) == Append(FlatSeries(n, c), Bar(j, j, j))

ScenarioSeries ==
    { RisingSeries(100, 1000, 10), RisingSeries(100, 1000, 20),
      FlatSeries(25, 1000), FlatSeries(61, 1000), FlatSeries(100, 1000),
      JumpSeries(60, 1000, 2000) }

\* backtest_strategy on a frame of raw bars: generate_signals computes the
\* indicator columns first
BacktestBars(F) ==
    /\ pc = "idle"
    /\ \E b \in F :
          /\ bars' = b
          /\ LET d == calculate_indicators(b) IN Begin(d, 0)
    /\ UNCHANGED <<runs, prev, strategy, performance>>

(* -------------------- constructing the strategy ----------------------- *)

\* arguments a caller may hand to __init__: the defaults, or a negative slow
\* window, a zero ATR span, an empty volatility band, a zero stop multiple or a
\* zero expansion multiple in their place
Configs ==
    { [DefaultConfig EXCEPT !.slow_ma_window = w, !.atr_window = a,
                            !.vol_min_pct = lo, !.atr_multiple_stop = m,
                            !.vol_expand_multiple_for_add = x] :
        w \in {-1, 60}, a \in {0, 14}, lo \in {Rat(7, 10), Rat(5, 2)},
        m \in {0, 3}, x \in {Rat(0, 1), Rat(11, 10)} }

ConfigFrames == { <<r>> : r \in LedgerRows }

\* SingleStockMomentumVolBreakoutStrategy(**cfg): nothing is checked
Construct(C) ==
    /\ pc = "idle"
    /\ \E cfg \in C : strategy' = strategy_init(cfg)
    /\ UNCHANGED <<pc, df, base, signals_df, signals, k, cash, positions, trades,
                   portfolio_value, runs, prev, bars, performance>>

\* the window arguments that ewm(span=...) and rolling(...) take: a span below
\* 1 or a negative window makes the call raise
windows_accepted ==
    /\ strategy.atr_window >= 1
    /\ strategy.vol_lookback_for_filter >= 0
    /\ strategy.fast_ma_window >= 0
    /\ strategy.slow_ma_window >= 0
    /\ strategy.entry_breakout_window >= 0
    /\ strategy.exit_break_window >= 0

\* backtest_strategy with the strategy as constructed: the first use of a
\* window is inside generate_signals
BacktestStartConfigured ==
    IF windows_accepted THEN BacktestStart(ConfigFrames)
    ELSE /\ pc = "idle"
         /\ pc' = "raised"
         /\ UNCHANGED <<df, base, signals_df, signals, k, cash, positions, trades,
                        portfolio_value, runs, prev, strategy, bars, performance>>

NextCfg ==
    Construct(Configs) \/ BacktestStartConfigured \/ ProcessSignal \/ Finish \/ Rerun

SpecCfg == Init /\ [][NextCfg]_vars

NextBars ==
    \/ Construct({SmallConfig})
    \/ BacktestBars(SmallBarFrames)
    \/ ProcessSignal
    \/ Finish
    \/ Rerun

SpecBars == Init /\ [][NextBars]_vars

NextScen == BacktestBars(ScenarioSeries) \/ ProcessSignal \/ Finish \/ Rerun

SpecScen == Init /\ [][NextScen]_vars

(* ------------------------ ledger properties --------------------------- *)

Last(q) == q[Len(q)]

\* the signal of the loop iteration that is about to run
AtSignal == pc = "loop" /\ k <= Len(signals)

\* mark-to-market of every lot in q at price p, none left out
RECURSIVE SumLots(_, _)
SumLots(q, p) == IF q = <<>> THEN 0 ELSE Head(q).shares * p + SumLots(Tail(q), p)

\* cash held just before trade j was executed
CashBefore(j) == IF j = 1 THEN initial_cash ELSE trades[j - 1].cash_after

\* the strength generate_signals gave the row a signal comes from
SignalStrengthOf(s) == signals_df[s.date - base + 1].signal_strength

\* C1: cash is never negative: not in the ledger, not after any trade, not in
\* any snapshot; and a BUY never costs more than the cash held just before it.
C1_CashNonNegative ==
    /\ cash >= 0
    /\ \A j \in 1..Len(trades) :
          /\ trades[j].cash_after >= 0
          /\ trades[j].action = "BUY" => trades[j].shares * trades[j].price <= CashBefore(j)
    /\ \A j \in 1..Len(portfolio_value) : portfolio_value[j].cash >= 0

C1_Witness ==
    /\ Len(trades) >= 3
    /\ \A j \in 1..3 : trades[j].action = "BUY"
    /\ cash < initial_cash

\* C2: the snapshot just appended has value = cash + the mark-to-market of all
\* open lots at the day's price, its cash is the ledger cash and its lot count
\* is the number of open lots; one snapshot has been appended per iteration.
C2_ValueIdentity ==
    /\ Len(portfolio_value) = (IF pc = "idle" THEN 0 ELSE k - 1)
    /\ portfolio_value # <<>> =>
          LET snap == Last(portfolio_value)
              price == signals[k - 1].price
          IN /\ snap.cash = cash
             /\ snap.positions = Len(positions)
             /\ snap.value = cash + SumLots(positions, price)

C2_Witness ==
    /\ portfolio_value # <<>>
    /\ Len(positions) >= 2
    /\ Last(positions).date = Last(portfolio_value).date
    /\ Last(portfolio_value).value # initial_cash

\* C3: a SELL processed while lots are open closes every lot in that one step:
\* no lot stays open, one SELL trade per closed lot is logged (in lot order)
\* with profit (sell price - entry price) * shares, and cash grows by the sum
\* of shares * sell price over the closed lots.
C3_SellClosesAllLots ==
    [][ (AtSignal /\ signals[k].action = "SELL" /\ positions # <<>>) =>
          LET s == signals[k]
              n == Len(trades)
          IN /\ positions' = <<>>
             /\ Len(trades') = n + Len(positions)
             /\ SubSeq(trades', 1, n) = trades
             /\ \A j \in 1..Len(positions) :
                   /\ trades'[n + j].action = "SELL"
                   /\ trades'[n + j].date = s.date
                   /\ trades'[n + j].price = s.price
                   /\ trades'[n + j].shares = positions[j].shares
                   /\ trades'[n + j].profit = (s.price - positions[j].price) * positions[j].shares
             /\ cash' = cash + SumLots(positions, s.price) ]_vars

C3_Witness ==
    /\ Len(trades) >= 4
    /\ positions = <<>>
    /\ Last(trades).action = "SELL"
    /\ trades[Len(trades) - 1].action = "SELL"
    /\ trades[Len(trades) - 1].date = Last(trades).date
    /\ trades[Len(trades) - 1].profit > 0
    /\ Last(trades).profit > 0
    /\ trades[Len(trades) - 1].profit # Last(trades).profit

\* C4: a SELL processed while no lot is open changes neither the cash, nor the
\* open lots, nor the trade log.
C4_NoShortSelling ==
    [][ (AtSignal /\ signals[k].action = "SELL" /\ positions = <<>>) =>
          (cash' = cash /\ positions' = positions /\ trades' = trades) ]_vars

C4_Witness ==
    /\ pc = "loop"
    /\ k > 1
    /\ signals[k - 1].action = "SELL"
    /\ trades = <<>>
    /\ positions = <<>>
    /\ Len(portfolio_value) = k - 1

\* C5: a BUY with cash > 0 buys floor(min(cash * 0.1 * strength, cash) / price)
\* shares, strength being the strength of the signal; when that is positive,
\* cash falls by shares * price, one lot (date, shares, price) is opened and one
\* BUY trade is logged whose cash_after is the new cash.
C5_BuySizedBySignalStrength ==
    [][ (AtSignal /\ signals[k].action = "BUY" /\ cash > 0) =>
          LET s == signals[k]
              v == RMin(RMul(Rat(cash, 10), SignalStrengthOf(s)), Rat(cash, 1))
              shares == v.num \div (v.den * s.price)
          IN shares > 0 =>
                /\ cash' = cash - shares * s.price
                /\ positions' = Append(positions,
                                       [date |-> s.date, shares |-> shares, price |-> s.price])
                /\ Len(trades') = Len(trades) + 1
                /\ SubSeq(trades', 1, Len(trades)) = trades
                /\ Last(trades').action = "BUY"
                /\ Last(trades').shares = shares
                /\ Last(trades').cash_after = cash' ]_vars

\* C6: an ADD with cash > 0 is executed like a BUY: shares are bought, cash
\* falls by shares * price, a lot is opened and a trade is logged.
C6_AddExecutedLikeBuy ==
    [][ (AtSignal /\ signals[k].action = "ADD" /\ cash > 0
         /\ buy_shares(cash, signals[k].strength, signals[k].price) > 0) =>
          /\ Len(positions') = Len(positions) + 1
          /\ Last(positions').shares > 0
          /\ cash' = cash - Last(positions').shares * signals[k].price
          /\ Len(trades') = Len(trades) + 1 ]_vars

\* the scenario of C7: the first trade of the run is a BUY at 10.00 whose
\* signal has strength 1.0 (cash is still the initial 1,000,000.00, no lot open)
C7_Scenario ==
    /\ initial_cash = 100000000
    /\ trades # <<>>
    /\ trades[1].action = "BUY"
    /\ trades[1].price = 1000
    /\ SignalStrengthOf(trades[1]) = Rat(1, 1)

\* C7 as stated: position value 100,000.00, 10,000 shares, cash after 0.00.
C7_CashAfterZero ==
    C7_Scenario =>
        /\ trades[1].shares = 10000
        /\ trades[1].shares * trades[1].price = 10000000
        /\ trades[1].cash_after = 0

\* C7 amended: position value 100,000.00, 10,000 shares, cash after 900,000.00.
C7_CashAfterNineTenths ==
    C7_Scenario =>
        /\ trades[1].shares = 10000
        /\ trades[1].shares * trades[1].price = 10000000
        /\ trades[1].cash_after = 90000000

C7_Witness == C7_Scenario /\ Len(trades) = 1 /\ Len(positions) = 1 /\ cash = trades[1].cash_after

\* C8: every day on which a trade was executed has exactly one snapshot, taken
\* after the day's last trade (its cash is that trade's cash_after), and the
\* snapshots are in strictly ascending date order.
C8_SnapshotPerTradingDay ==
    /\ \A j \in 1..Len(trades) :
          /\ Cardinality({i \in 1..Len(portfolio_value) :
                             portfolio_value[i].date = trades[j].date}) = 1
          /\ (j = Len(trades) \/ trades[j + 1].date # trades[j].date) =>
                \A i \in 1..Len(portfolio_value) :
                   portfolio_value[i].date = trades[j].date =>
                      portfolio_value[i].cash = trades[j].cash_after
    /\ \A i, j \in 1..Len(portfolio_value) :
          i < j => portfolio_value[i].date < portfolio_value[j].date

C8_Witness ==
    /\ Len(trades) >= 3
    /\ trades[1].action = "BUY"
    /\ Last(trades).action = "SELL"
    /\ Len(portfolio_value) >= 3

(* ------------------------ signal properties --------------------------- *)

Actions == {"BUY", "SELL", "ADD", "HOLD"}

\* the first action, in the order BUY, SELL, ADD, HOLD, whose condition holds
FirstMatch(row) ==
    CASE buy_condition(row) -> "BUY"
      [] ~buy_condition(row) /\ sell_condition(row) -> "SELL"
      [] ~buy_condition(row) /\ ~sell_condition(row) /\ add_condition(row) -> "ADD"
      [] OTHER -> "HOLD"

\* C9 as stated: every row of the frame gets exactly one action, the first match.
C9_FirstMatchEveryRow ==
    /\ Len(signals_df) = Len(df)
    /\ \A j \in 1..Len(signals_df) :
          /\ signals_df[j].signal \in Actions
          /\ signals_df[j].signal = FirstMatch(df[j])

\* C9 amended: every row gets exactly one action; a row at or past the lookback
\* gets the first match, a row before it is HOLD whatever its conditions.
C9_FirstMatchPastLookback ==
    /\ Len(signals_df) = Len(df)
    /\ \A j \in 1..Len(signals_df) :
          /\ signals_df[j].signal \in Actions
          /\ signals_df[j].signal =
                (IF base + j - 1 >= MinLookback THEN FirstMatch(df[j]) ELSE "HOLD")

C9_Witness ==
    \E j \in 1..Len(signals_df) :
       /\ base + j - 1 >= MinLookback
       /\ buy_condition(df[j])
       /\ sell_condition(df[j])
       /\ add_condition(df[j])
       /\ signals_df[j].signal = "BUY"

\* C10: a second run of backtest_strategy on the same engine and frame ends with
\* the same signals, trades and snapshots as the run before it, whatever that
\* run left in the ledger, and the caller's frame is the one that was passed.
C10_RunIndependence ==
    (pc = "done" /\ runs >= 2) =>
        /\ prev # <<>>
        /\ df = prev[1].df
        /\ signals_df = prev[1].signals_df
        /\ trades = prev[1].trades
        /\ portfolio_value = prev[1].portfolio_value

C10_Witness ==
    /\ pc = "done"
    /\ runs >= 2
    /\ Len(trades) >= 2
    /\ positions # <<>>
    /\ cash # initial_cash

\* C13: the number of concurrently open lots never exceeds max_pyramid_layers.
C13_PyramidCapped == Len(positions) <= max_pyramid_layers

\* C14: no BUY is emitted, and none is executed, on any of the
\* cooldown_days_after_exit trading days that follow a day with a SELL.
C14_CooldownAfterExit ==
    /\ \A i, j \in 1..Len(signals_df) :
          (signals_df[i].signal = "SELL" /\ signals_df[j].signal = "BUY" /\ i < j) =>
              signals_df[j].date - signals_df[i].date > cooldown_days_after_exit
    /\ \A i, j \in 1..Len(trades) :
          (trades[i].action = "SELL" /\ trades[j].action = "BUY" /\ i < j) =>
              trades[j].date - trades[i].date > cooldown_days_after_exit

\* C15: a step of the signal loop closes a lot only when the signal's day is
\* at least min_hold_days trading days after the day the lot was opened.
C15_MinimumHold ==
    [][ \A j \in 1..Len(positions) :
           (AtSignal /\ \A i \in 1..Len(positions') :
                           positions'[i].date # positions[j].date) =>
               signals[k].date - positions[j].date >= min_hold_days ]_vars

\* C18: every row generate_signals returns has a strength within [0, 1]:
\* min(1.0, trend_strength * 10) on a BUY row, 1.0 on a SELL row, 0.8 on an
\* ADD row and 0 on a HOLD row.
C18_StrengthInUnitInterval ==
    \A j \in 1..Len(signals_df) :
       LET r == signals_df[j] IN
       /\ RLe(Rat(0, 1), r.signal_strength)
       /\ RLe(r.signal_strength, Rat(1, 1))
       /\ r.signal = "BUY" =>
              r.signal_strength = RMin(Rat(1, 1), RMul(trend_strength(df[j]), Rat(10, 1)))
       /\ r.signal = "SELL" => r.signal_strength = Rat(1, 1)
       /\ r.signal = "ADD" => r.signal_strength = Rat(8, 10)
       /\ r.signal = "HOLD" => r.signal_strength = Rat(0, 1)

\* a BUY row whose trend_strength * 10 exceeds 1 and was clamped to 1.0
C18_Witness ==
    \E j \in 1..Len(signals_df) :
       /\ signals_df[j].signal = "BUY"
       /\ RGt(RMul(trend_strength(df[j]), Rat(10, 1)), Rat(1, 1))
       /\ signals_df[j].signal_strength = Rat(1, 1)

\* the running peak at snapshot j: the largest value seen so far, starting
\* from the initial capital
PeakAt(j) ==
    LET seen == {initial_cash} \cup {portfolio_value[i].value : i \in 1..j}
    IN CHOOSE p \in seen : \A q \in seen : q <= p

\* the decline at snapshot j from the running peak, in percent
DeclineAt(j) ==
    RTimes(Rat(PeakAt(j) - portfolio_value[j].value, PeakAt(j)), 100)

\* the run has returned a performance dict with figures in it
Reported == pc = "done" /\ performance # <<>>

\* C16: max_drawdown is >= 0 and >= the decline from the running peak at every
\* snapshot, and it equals the largest of those declines.
C16_MaxDrawdownIsLargestDecline ==
    Reported =>
        /\ performance.max_drawdown.num >= 0
        /\ \A j \in 1..Len(portfolio_value) :
              ~RLtWide(performance.max_drawdown, DeclineAt(j))
        /\ \E j \in 1..Len(portfolio_value) :
              performance.max_drawdown = DeclineAt(j)

\* a run whose value rose above the initial capital, fell, and recovered: the
\* largest decline is positive and is not the latest one
C16_Witness ==
    /\ Reported
    /\ performance.max_drawdown.num > 0
    /\ PeakAt(Len(portfolio_value)) > initial_cash
    /\ RLtWide(DeclineAt(Len(portfolio_value)), performance.max_drawdown)

\* the SELL trades of the run, and those with a realized profit above zero
SellTrades == SelectSeq(trades, LAMBDA t : t.action = "SELL")

ProfitableSells == SelectSeq(SellTrades, LAMBDA t : t.profit > 0)

\* C17 as stated: win_rate is the fraction profitable SELL trades / SELL
\* trades, 0 without SELL trades.
C17_WinRateFraction ==
    Reported =>
        performance.win_rate =
            IF SellTrades = <<>> THEN Rat(0, 1)
            ELSE Rat(Len(ProfitableSells), Len(SellTrades))

\* C17 amended: win_rate is that fraction times 100 (a percentage), 0 without
\* SELL trades; BUY trades count on neither side; a run without snapshots
\* returns the empty dict, which has no win_rate.
C17_WinRatePercent ==
    pc = "done" =>
        /\ portfolio_value = <<>> <=> performance = <<>>
        /\ performance # <<>> =>
              performance.win_rate =
                  IF SellTrades = <<>> THEN Rat(0, 1)
                  ELSE Rat(100 * Len(ProfitableSells), Len(SellTrades))

\* one winning and one losing SELL among four trades: win_rate is 50
C17_Witness ==
    /\ Reported
    /\ Len(trades) = 4
    /\ Len(SellTrades) = 2
    /\ Len(ProfitableSells) = 1
    /\ performance.win_rate = Rat(50, 1)

\* what the specification calls a valid configuration: positive windows, a
\* non-empty volatility band, positive multiples and thresholds
ValidConfig(st) ==
    /\ st.fast_ma_window > 0 /\ st.slow_ma_window > 0
    /\ st.entry_breakout_window > 0 /\ st.exit_break_window > 0
    /\ st.atr_window > 0 /\ st.vol_lookback_for_filter > 0
    /\ RLt(st.vol_min_pct, st.vol_max_pct)
    /\ st.atr_multiple_stop > 0
    /\ RLt(Rat(0, 1), st.vol_expand_multiple_for_add)
    /\ RLt(Rat(0, 1), st.trend_strength_threshold)

\* C12: a strategy object only ever holds a valid configuration (construction
\* with an invalid one fails), so no signal frame is computed under an invalid
\* configuration.
C12_ConfigValidated == ValidConfig(strategy)

\* C11: for every day t and every truncation day T >= t, the indicator row at
\* t (ATR, rolling ATR% median, fast/slow MA, Donchian high/low), the columns
\* derived from it (ATR%, ATR ratio, trend strength) and the signal at t are the
\* same on the frame cut after T as on the whole frame.
C11_NoLookahead ==
    (bars # <<>> /\ Len(signals_df) = Len(bars)) =>
        \A T \in 1..Len(bars) :
           LET cut == calculate_indicators(SubSeq(bars, 1, T))
               cut_signals == generate_signals(cut, 0)
           IN \A t \in 1..T :
                 /\ cut[t] = df[t]
                 /\ atr_pct(cut[t]) = atr_pct(df[t])
                 /\ atr_filter_ratio(cut[t]) = atr_filter_ratio(df[t])
                 /\ trend_strength(cut[t]) = trend_strength(df[t])
                 /\ cut_signals[t] = signals_df[t]

\* a frame under the short windows whose later bars differ from the earlier
\* ones, with every rolling column defined on row 3 and a signal on row 4
C11_Witness ==
    /\ Len(bars) >= 4
    /\ Len(signals_df) = Len(bars)
    /\ bars[4] # bars[3]
    /\ ~IsNaN(df[3].slow_ma)
    /\ ~IsNaN(df[3].atr_pct_median)
    /\ ~IsNaN(df[3].donchian_high)
    /\ signals_df[4].signal # "HOLD"

\* the rows of the signal frame that carry a BUY
BuyDays == {j \in 1..Len(signals_df) : signals_df[j].signal = "BUY"}

\* the scenario of C19: 100 bars with strictly rising closes on which, from
\* index 60 on, the fast MA is above the slow MA and the ATR ratio lies within
\* [vol_min_pct, vol_max_pct]
RisingScenario ==
    /\ Len(bars) = 100
    /\ Len(signals_df) = 100
    /\ \A t \in 2..100 : bars[t].close > bars[t - 1].close
    /\ \A t \in (MinLookback + 1)..100 : ma_condition(df[t]) /\ vol_condition(df[t])

\* C19 as stated: on the rising scenario exactly one BUY is emitted.
C19_ExactlyOneBuy == RisingScenario => Cardinality(BuyDays) = 1

\* C19 amended: on the rising scenario a BUY is emitted on every day from
\* index 60 (row 61) on, 40 in all, and on no earlier day.
C19_BuyOnEveryEntryDay ==
    RisingScenario =>
        /\ BuyDays = (MinLookback + 1)..100
        /\ Cardinality(BuyDays) = 40
        /\ \A j \in BuyDays : buy_condition(df[j])

\* the rising scenario has run to the end and every BUY was executed
C19_Witness ==
    /\ RisingScenario
    /\ pc = "done"
    /\ signals_df[MinLookback + 1].signal = "BUY"
    /\ performance.buy_trades = 40

\* a row on which a ratio the signal loop reads has a zero or undefined
\* denominator: atr_filter_ratio (the ATR% median), trend_strength (slow_ma)
\* or risk_reward_ratio (close - stop = atr_multiple_stop * ATR)
ZeroOrNaN(a) == IsNaN(a) \/ (a.num = 0 /\ a.den # 0)

\* C20: on a row where a ratio has a zero or undefined denominator, every
\* condition that reads that ratio is false and the row is not a BUY.
C20_UndefinedCountsAsFalse ==
    \A j \in 1..Len(signals_df) :
       LET row == df[j] IN
       /\ ZeroOrNaN(row.atr_pct_median) =>
              /\ ~vol_condition(row)
              /\ ~RGt(atr_filter_ratio(row), vol_expand_multiple_for_add)
              /\ signals_df[j].signal # "BUY"
       /\ ZeroOrNaN(row.slow_ma) =>
              /\ ~trend_reversal(row)
              /\ ~RGt(trend_strength(row), RMul(trend_strength_threshold, Rat(3, 2)))
              /\ signals_df[j].signal # "BUY"
       /\ ZeroOrNaN(row.atr) =>
              /\ ~risk_reward_ok(row)
              /\ signals_df[j].signal # "BUY"

\* the four entry conditions of a row, written on its columns
EntryConditions(row) ==
    /\ RGt(row.fast_ma, row.slow_ma)
    /\ RGt(Rat(row.close, 1), row.fast_ma)
    /\ RLe(strategy.vol_min_pct, atr_filter_ratio(row))
    /\ RLe(atr_filter_ratio(row), strategy.vol_max_pct)
    /\ RGt(risk_reward_ratio(row), Rat(3, 2))

\* C21: a row at or past the minimum lookback is a BUY exactly when fast_ma >
\* slow_ma, close > fast_ma, vol_min_pct <= atr_filter_ratio <= vol_max_pct
\* (both ends included) and risk_reward_ratio > 1.5; a BUY row carries
\* stop_loss = close - atr_multiple_stop * ATR and
\* take_profit = close + take_profit_multiple * atr_multiple_stop * ATR.
C21_BuyIffEntryConditions ==
    \A j \in 1..Len(signals_df) :
       LET row == df[j]
           out == signals_df[j]
           risk == RMul(Rat(strategy.atr_multiple_stop, 1), row.atr)
       IN  out.date >= MinLookback =>
              /\ out.signal = "BUY" <=> EntryConditions(row)
              /\ out.signal = "BUY" =>
                     /\ out.stop_loss = RSub(Rat(row.close, 1), risk)
                     /\ out.take_profit =
                            RAdd(Rat(row.close, 1),
                                 RMul(Rat(strategy.take_profit_multiple, 1), risk))

\* a BUY row at the lookback whose ATR ratio sits on the upper end of the band
C21_Witness ==
    /\ Len(signals_df) = 1
    /\ signals_df[1].date = MinLookback
    /\ signals_df[1].signal = "BUY"
    /\ atr_filter_ratio(df[1]) = strategy.vol_max_pct
    /\ signals_df[1].stop_loss = Rat(df[1].close - 90, 1)
    /\ signals_df[1].take_profit = Rat(df[1].close + 180, 1)

C24_WarmupRowsHold ==
    /\ Len(signals_df) = Len(df)
    /\ bars # <<>> => Len(signals_df) = Len(bars)
    /\ \A j \in 1..Len(signals_df) :
          LET out == signals_df[j] IN
          /\ out.date = base + j - 1
          /\ out.close = df[j].close
          /\ bars # <<>> => out.close = bars[j].close
          /\ out.date < Max(strategy.slow_ma_window, strategy.vol_lookback_for_filter) =>
                 /\ out.signal = "HOLD"
                 /\ out.signal_reason = ""
                 /\ out.signal_strength = Rat(0, 1)
                 /\ out.position_size = Rat(0, 1)
                 /\ out.stop_loss = Rat(0, 1)
                 /\ out.take_profit = Rat(0, 1)

\* 100 rising bars: the row at index 59 meets every entry condition and is
\* still HOLD, the row at index 60 is the first BUY
C24_Witness ==
    /\ Len(bars) = 100
    /\ Len(signals_df) = 100
    /\ buy_condition(df[MinLookback])
    /\ signals_df[MinLookback].signal = "HOLD"
    /\ signals_df[MinLookback].date = MinLookback - 1
    /\ signals_df[MinLookback + 1].signal = "BUY"

\* the three price-based SELL sub-conditions are false on every row
NoPriceExit ==
    \A j \in 1..Len(signals_df) :
       LET row == df[j]
           c == Rat(row.close, 1)
       IN  /\ ~RLt(c, dynamic_stop_loss(row))
           /\ ~RLt(c, row.donchian_low)
           /\ ~RGt(c, take_profit_price(row))
           /\ signals_df[j].signal = "SELL" =>
                  signals_df[j].signal_reason = "trend_reversal"

\* a frame of raw bars has been handed in and both multiples are positive
PositiveMultiples ==
    /\ bars # <<>>
    /\ strategy.atr_multiple_stop > 0
    /\ strategy.take_profit_multiple > 0

\* C25 as stated: on any bar series with low <= close on every bar and
\* positive multiples, close < dynamic_stop_loss, close < donchian_low and
\* close > take_profit_price are never true and every SELL carries the
\* trend-reversal reason.
C25_OnlyTrendReversalSells ==
    (PositiveMultiples /\ \A t \in 1..Len(bars) : bars[t].low <= bars[t].close)
        => NoPriceExit

\* C25 amended: the same on any bar series with low <= close and low <= high
\* on every bar.
C25_OnlyTrendReversalSellsOnOrderedBars ==
    (PositiveMultiples /\ \A t \in 1..Len(bars) :
                             bars[t].low <= bars[t].close /\ bars[t].low <= bars[t].high)
        => NoPriceExit

\* a SELL past the lookback on bars with low <= close <= high
C25_Witness ==
    /\ PositiveMultiples
    /\ \A t \in 1..Len(bars) :
          bars[t].low <= bars[t].close /\ bars[t].close <= bars[t].high
    /\ \E j \in 1..Len(signals_df) :
          /\ signals_df[j].signal = "SELL"
          /\ signals_df[j].signal_reason = "trend_reversal"
          /\ RGt(df[j].atr, Rat(0, 1))

\* C26: risk_reward_ratio equals take_profit_multiple (2.0) on every row with
\* ATR > 0, whatever the price and the ATR, and is undefined exactly when
\* ATR = 0; with a positive stop multiple the gate risk_reward_ratio > 1.5
\* rejects a row only where ATR = 0, and the risk-reward multiplier of
\* _calculate_position_size is 1.0 on every row it is called for.
C26_RiskRewardIsConstant ==
    \A j \in 1..Len(signals_df) :
       LET row == df[j]
           rr == risk_reward_ratio(row)
           zero == row.atr = Rat(0, 1)
       IN  strategy.atr_multiple_stop > 0 =>
              /\ RGt(row.atr, Rat(0, 1)) =>
                     /\ rr = Rat(strategy.take_profit_multiple, 1)
                     /\ rr = Rat(2, 1)
                     /\ rr_adjustment(row) = Rat(1, 1)
              /\ IsNaN(rr) <=> zero
              /\ ~RGt(rr, Rat(3, 2)) <=> zero
              /\ signals_df[j].signal \in {"BUY", "ADD"} =>
                     rr_adjustment(row) = Rat(1, 1)

\* one frame holding a row with ATR = 0, and a BUY row whose ATR is positive
\* and not a whole number and differs from the ATR of the row before it
C26_Witness ==
    /\ bars # <<>>
    /\ \E j \in 1..Len(signals_df) : df[j].atr = Rat(0, 1)
    /\ \E j \in 2..Len(signals_df) :
          /\ signals_df[j].signal = "BUY"
          /\ df[j].atr.den > 1
          /\ RGt(df[j - 1].atr, Rat(0, 1))
          /\ df[j - 1].atr # df[j].atr
          /\ df[j - 1].close # df[j].close

BuyTrades == SelectSeq(trades, LAMBDA t : t.action = "BUY")

\* the i-th SELL closes the lot the i-th BUY opened, and the BUYs beyond the
\* last SELL are the open lots, one lot per BUY, in the order they were opened
LotsMatchTrades ==
    /\ Len(BuyTrades) = Len(SellTrades) + Len(positions)
    /\ \A i \in 1..Len(SellTrades) :
          /\ SellTrades[i].shares = BuyTrades[i].shares
          /\ SellTrades[i].profit =
                 (SellTrades[i].price - BuyTrades[i].price) * BuyTrades[i].shares
          /\ BuyTrades[i].date < SellTrades[i].date
    /\ \A i \in 1..Len(positions) :
          LET b == BuyTrades[Len(SellTrades) + i]
          IN positions[i] = [date |-> b.date, shares |-> b.shares, price |-> b.price]

\* C28: while the signals are processed the trade log only grows; every open
\* lot corresponds to exactly one BUY trade not yet matched by a SELL, so
\* count(BUY) = count(SELL) + number of open lots; every SELL trade's shares
\* are the shares of the BUY that opened the lot it closes.
C28_LotTradeAccounting ==
    /\ []LotsMatchTrades
    /\ [][AtSignal => /\ Len(trades') >= Len(trades)
                      /\ SubSeq(trades', 1, Len(trades)) = trades]_vars

\* two lots closed by one SELL, and a third lot opened after it
C28_Witness ==
    /\ Len(trades) = 5
    /\ trades[1].action = "BUY"
    /\ trades[2].action = "BUY"
    /\ trades[1].shares # trades[2].shares
    /\ trades[3].action = "SELL"
    /\ trades[4].action = "SELL"
    /\ trades[5].action = "BUY"
    /\ Len(positions) = 1

\* shares * price summed over a list of trades
Turnover(tr) == SumSeq([j \in 1..Len(tr) |-> tr[j].shares * tr[j].price])

\* C29: cash = initial_cash - sum(shares * price over BUY trades)
\* + sum(shares * price over SELL trades); whenever no lot is open,
\* cash - initial_cash is the sum of the profit fields of all SELL trades and
\* the value of the latest snapshot is the cash.
C29_CashConservation ==
    /\ cash = initial_cash - Turnover(BuyTrades) + Turnover(SellTrades)
    /\ positions = <<>> =>
          /\ cash - initial_cash =
                 SumSeq([j \in 1..Len(SellTrades) |-> SellTrades[j].profit])
          /\ portfolio_value # <<>> =>
                 /\ Last(portfolio_value).value = cash
                 /\ Last(portfolio_value).cash = cash

\* two lots bought at different prices and closed by a later SELL at a loss
\* on one and a gain on the other, nothing left open
C29_Witness ==
    /\ Len(trades) = 4
    /\ positions = <<>>
    /\ trades[3].action = "SELL"
    /\ trades[4].action = "SELL"
    /\ trades[3].profit # trades[4].profit
    /\ cash # initial_cash
    /\ Last(portfolio_value).value = cash

\* the rows of the signal frame that are not HOLD
SignalDays == {j \in 1..Len(signals_df) : signals_df[j].signal # "HOLD"}

\* the signal about to be processed changes nothing: an ADD, a SELL with no
\* lot open, or a BUY for which a tenth of the cash does not pay for one share
IdleSignal ==
    \/ signals[k].action = "ADD"
    \/ signals[k].action = "SELL" /\ positions = <<>>
    \/ signals[k].action = "BUY" /\ (cash \div 10) \div signals[k].price = 0

\* one snapshot per processed signal, one signal per row that is not HOLD
SnapshotPerSignal ==
    /\ Len(signals) = Cardinality(SignalDays)
    /\ \A j \in 1..Len(signals) :
          /\ signals[j].action \in {"BUY", "SELL", "ADD"}
          /\ signals[j].date - base + 1 \in SignalDays
    /\ Len(portfolio_value) = (IF pc = "idle" THEN 0 ELSE k - 1)
    /\ pc = "done" => Len(portfolio_value) = Cardinality(SignalDays)
    /\ \A j \in 1..Len(portfolio_value) : portfolio_value[j].date = signals[j].date

====
